---- MODULE Spec2Model ----
(***************************************************************************)
(* Model of the closey-lang native back end:                               *)
(*   backends/ir.rs          lowering of the frontend expression tree and  *)
(*                           lifetime analysis,                            *)
(*   backends/x86/codegen.rs x86-64 emission (generate_code) and the       *)
(*                           GeneratedCode artifact (relocate, get_fn).    *)
(* Bytes are naturals in 0..255, buffers are sequences of bytes.           *)
(***************************************************************************)
EXTENDS Integers, Sequences, FiniteSets, TLC

VARIABLES
    pc,                 \* position of the driver: "lower", "gen", "instr", "done", "panic", "life", "lifedone"
    input,              \* frontend ir::IrModule handed to convert_frontend_ir_to_backend_ir
    module,             \* backend IrModule (ir.rs `new.funcs`, then generate_code's `module.funcs`)
    fidx,               \* index (1-based) of the function the current loop is at
    iidx,               \* index (1-based) of the instruction generate_code is at
    code,               \* GeneratedCode: data, func_addrs, func_refs
    used_registers,     \* generate_code's HashSet, in its iteration order
    local_to_register,  \* generate_code's HashMap local -> Register
    register_lifetimes, \* generate_code's Vec
    err,                \* which abort (panic) ended the process, "" if none
    relocs,             \* bases relocate() has been called with, in order
    entry               \* the last get_fn call: name, base and the pointer returned

vars == << pc, input, module, fidx, iidx, code, used_registers,
           local_to_register, register_lifetimes, err, relocs, entry >>

-----------------------------------------------------------------------------
(* Bounds of the model *)

\* longest chain of curried applications in a frontend body
MaxChain == 3
\* largest per-layer residual arity in a frontend body
MaxArity == 1
\* number of instructions of the instruction lists lifetime analysis is run on
MaxLifeLen == 4
\* largest register-pool slot the register assignment hands out (below the pool size)
MaxPoolSlot == 4
\* number of spill slots the register assignment hands out
MaxSpill == 2
\* number of relocate calls made on one artifact
MaxRelocs == 2

-----------------------------------------------------------------------------
(* ir.rs data model *)

\* Option::None of `local: Option<usize>`
None == -1

Local(l)    == [kind |-> "Local",    n |-> l, f |-> ""]
Argument(a) == [kind |-> "Argument", n |-> a, f |-> ""]
Function(g) == [kind |-> "Function", n |-> 0, f |-> g]

IrSsa(local, instr, args) ==
    [local |-> local, local_lifetime |-> 0, local_register |-> 0,
     instr |-> instr, args |-> args]

IrFunction(name, argc, ssas) == [name |-> name, argc |-> argc, ssas |-> ssas]

\* IrInstruction::Call(known_arity)
Call(known_arity) == IF known_arity THEN "Call" ELSE "Call?"

RECURSIVE get_last_local_from(_, _)
get_last_local_from(ssas, i) ==
    IF i = 0 THEN None
    ELSE IF ssas[i].local # None THEN ssas[i].local
    ELSE get_last_local_from(ssas, i - 1)

get_last_local(ssas) == get_last_local_from(ssas, Len(ssas))

get_next_local_stuck(ssas) ==
    LET l == get_last_local_from(ssas, Len(ssas))
    IN  IF l # None THEN l ELSE 0

get_next_local(ssas) ==
    LET l == get_last_local_from(ssas, Len(ssas))
    IN  IF l # None THEN l + 1 ELSE 0

-----------------------------------------------------------------------------
(* frontend SExpr, as far as conversion_helper looks at it *)

Symbol(s)            == [tag |-> "Symbol", arity |-> 0, s |-> s]
FunctionRef(f, ar)   == [tag |-> "Function", arity |-> ar, s |-> f]
Application(ar, f, a) == [tag |-> "Application", arity |-> ar, f |-> f, a |-> a]
Unsupported(tag)     == [tag |-> tag, arity |-> 0, s |-> ""]

UnsupportedTags == {"Empty", "TypeAlias", "ExternalFunc", "Chain", "Assign", "With", "Match"}

\* result of a conversion_helper call: the instruction list after it, the
\* returned Option<usize>, and the panic it died of ("" if it returned)
Ret3(ssas, local, panic) == [ssas |-> ssas, local |-> local, panic |-> panic]

\* the explicit stack of (arity, argument) pairs built at ir.rs:152-157,
\* outermost application first; returns <<stack, innermost callee>>
RECURSIVE unwind(_, _)
unwind(f, stack) ==
    IF f.tag = "Application"
    THEN unwind(f.f, Append(stack, << f.arity, f.a >>))
    ELSE << stack, f >>

CallArgsReversed(f, args) ==
    << Local(f) >> \o [i \in 1..Len(args) |-> Local(args[Len(args) + 1 - i])]

CallArgs(f, args) == << Local(f) >> \o [i \in 1..Len(args) |-> Local(args[i])]

KnownArityOfLayer(last_arity, arity) == arity # 0

KnownArity(last_arity, arity) == last_arity # 0

ApplyNeededAlways(arity) == TRUE

\* ir.rs:181: the test on the outermost application's arity after the loop
ApplyNeeded(arity) == arity # 0

RECURSIVE conversion_helper(_, _, _)
RECURSIVE apply_loop(_, _, _, _, _, _, _)

\* ir.rs:163-179, the `while let Some((arity, a)) = stack.pop()` loop
apply_loop(args_map, ssas, stack, f, args, local, last_arity) ==
    IF stack = << >> THEN
        [ssas |-> ssas, f |-> f, args |-> args, local |-> local, panic |-> ""]
    ELSE
        LET top   == stack[Len(stack)]
            arity == top[1]
            r     == conversion_helper(args_map, ssas, top[2])
        IN  IF r.panic # "" THEN
                [ssas |-> r.ssas, f |-> f, args |-> args, local |-> local, panic |-> r.panic]
            ELSE IF r.local = None THEN
                [ssas |-> r.ssas, f |-> f, args |-> args, local |-> local, panic |-> "unwrap"]
            ELSE
                LET args1 == Append(args, r.local)
                    rest  == SubSeq(stack, 1, Len(stack) - 1)
                IN  IF arity = 0 THEN
                        LET l == get_next_local(r.ssas)
                            s == IrSsa(l, Call(KnownArity(last_arity, arity)), CallArgs(f, args1))
                        IN  apply_loop(args_map, Append(r.ssas, s), rest, l, << >>, l, arity)
                    ELSE
                        apply_loop(args_map, r.ssas, rest, f, args1, local, arity)

conversion_helper(args_map, ssas, sexpr) ==
    CASE sexpr.tag = "Symbol" ->
            IF sexpr.s \in DOMAIN args_map THEN
                LET local == get_next_local(ssas)
                IN  Ret3(Append(ssas, IrSsa(local, "Load", << Argument(args_map[sexpr.s]) >>)),
                         local, "")
            ELSE Ret3(ssas, None, "todo: symbols that aren't arguments")
      [] sexpr.tag = "Function" ->
            LET local == get_next_local(ssas)
            IN  Ret3(Append(ssas, IrSsa(local, "Load", << Function(sexpr.s) >>)), local, "")
      [] sexpr.tag = "Application" ->
            LET u     == unwind(sexpr.f, << << sexpr.arity, sexpr.a >> >>)
                stack == u[1]
                callee == u[2]
                r0    == conversion_helper(args_map, ssas, callee)
            IN  IF r0.panic # "" THEN r0
                ELSE IF r0.local = None THEN Ret3(r0.ssas, None, "unwrap")
                ELSE
                    LET lp == apply_loop(args_map, r0.ssas, stack, r0.local, << >>, None,
                                         callee.arity)
                    IN  IF lp.panic # "" THEN Ret3(lp.ssas, None, lp.panic)
                        ELSE IF ApplyNeeded(sexpr.arity) THEN
                            LET l == get_next_local(lp.ssas)
                            IN  Ret3(Append(lp.ssas, IrSsa(l, "Apply", CallArgs(lp.f, lp.args))),
                                     l, "")
                        ELSE Ret3(lp.ssas, lp.local, "")
      [] OTHER -> Ret3(ssas, None, "todo: " \o sexpr.tag)

-----------------------------------------------------------------------------
(* ir.rs calculate_lifetimes *)

References(ssa, local) ==
    \E k \in 1..Len(ssa.args) : ssa.args[k].kind = "Local" /\ ssa.args[k].n = local

\* variant that leaves out the `+ 1`
RECURSIVE lifetime_scan_short(_, _, _, _, _)
lifetime_scan_short(ssas, pos, k, i, life) ==
    IF pos + k > Len(ssas) THEN life
    ELSE lifetime_scan_short(ssas, pos, k + 1, i,
                             IF References(ssas[pos + k], ssas[pos].local)
                             THEN (i + k) - i ELSE life)

\* variant that stops at the first referencing instruction
RECURSIVE lifetime_scan_first(_, _, _, _, _)
lifetime_scan_first(ssas, pos, k, i, life) ==
    IF pos + k > Len(ssas) THEN life
    ELSE IF References(ssas[pos + k], ssas[pos].local) THEN (i + k) - i + 1
    ELSE lifetime_scan_first(ssas, pos, k + 1, i, life)

\* the inner `for next in iter.as_slice()` loop: j runs over all later
\* instructions (the `break` only leaves the argument loop), so the last
\* referencing instruction decides the stored value
RECURSIVE lifetime_scan(_, _, _, _, _)
lifetime_scan(ssas, pos, k, i, life) ==
    IF pos + k > Len(ssas) THEN life
    ELSE lifetime_scan(ssas, pos, k + 1, i,
                       IF References(ssas[pos + k], ssas[pos].local)
                       THEN (i + k) - i + 1 ELSE life)

\* the outer loop: `i` is only advanced for instructions that produce a value
RECURSIVE lifetimes_from(_, _, _)
lifetimes_from(ssas, pos, i) ==
    IF pos > Len(ssas) THEN ssas
    ELSE IF ssas[pos].local = None THEN lifetimes_from(ssas, pos + 1, i)
    ELSE lifetimes_from(
            [ssas EXCEPT ![pos].local_lifetime =
                lifetime_scan(ssas, pos, 1, i, ssas[pos].local_lifetime)],
            pos + 1, i + 1)

calculate_lifetimes(ssas) == lifetimes_from(ssas, 1, 0)

-----------------------------------------------------------------------------
(* ir.rs convert_frontend_ir_to_backend_ir *)

\* a frontend ir::IrFunction: `captured` and `captured_names` hold the same names
FrontFunc(name, args, captured_names, body) ==
    [name |-> name, args |-> args, captured_names |-> captured_names, body |-> body]

Names(seq) == {seq[k] : k \in 1..Len(seq)}

LastIndex(seq, s) == CHOOSE k \in 1..Len(seq) :
    seq[k] = s /\ \A m \in (k + 1)..Len(seq) : seq[m] # s

ArgsMapShifted(func) ==
    [s \in Names(func.captured_names) \cup Names(func.args) |->
        IF s \in Names(func.args)
        THEN Len(func.captured_names) + LastIndex(func.args, s) - 1
        ELSE LastIndex(func.captured_names, s) - 1]

\* ir.rs:240: both lists are enumerated from 0 before they are chained, and
\* a later pair replaces an earlier pair with the same name
ArgsMap(func) ==
    [s \in Names(func.captured_names) \cup Names(func.args) |->
        IF s \in Names(func.args)
        THEN LastIndex(func.args, s) - 1
        ELSE LastIndex(func.captured_names, s) - 1]

RetFirst(body_ssas) ==
    << IrSsa(None, "Ret", << >>) >> \o body_ssas

\* variant whose Ret never names the last value
WithRetNoOperand(body_ssas) ==
    Append(body_ssas, IrSsa(None, "Ret", << >>))

\* ir.rs:243-253: the Ret appended after the body
WithRet(body_ssas) ==
    Append(body_ssas,
           IrSsa(None, "Ret",
                 IF get_last_local(body_ssas) # None
                 THEN << Local(get_last_local(body_ssas)) >> ELSE << >>))

\* one iteration of `for func in module.funcs`; a todo!()/unwrap panic
\* unwinds out of the conversion and `new` is dropped with it
convert_function ==
    /\ pc = "lower"
    /\ fidx <= Len(input)
    /\ LET func == input[fidx]
           r    == conversion_helper(ArgsMap(func), << >>, func.body)
       IN  IF r.panic # ""
           THEN /\ pc' = "panic"
                /\ err' = r.panic
                /\ module' = << >>
                /\ fidx' = fidx
           ELSE /\ module' = Append(module,
                        IrFunction(func.name,
                                   Len(func.args) + Len(func.captured_names),
                                   calculate_lifetimes(WithRet(r.ssas))))
                /\ fidx' = fidx + 1
                /\ UNCHANGED << pc, err >>
    /\ UNCHANGED << input, iidx, code, used_registers, local_to_register,
                    register_lifetimes, relocs, entry >>

\* `new` is returned once every function is converted
convert_return ==
    /\ pc = "lower"
    /\ fidx > Len(input)
    /\ pc' = "gen"
    /\ fidx' = 1
    /\ UNCHANGED << input, module, iidx, code, used_registers, local_to_register,
                    register_lifetimes, err, relocs, entry >>

-----------------------------------------------------------------------------
(* inputs of the lowering *)

CalleeAtoms == {FunctionRef("g", 1), FunctionRef("g", 0), [Symbol("x") EXCEPT !.arity = 1]}

ArgAtoms == {Symbol("y"), FunctionRef("h", 1),
             Application(0, FunctionRef("g", 1), Symbol("c"))}

\* chains (((f a1) a2) ... an) with n layers, any residual arity at each layer
RECURSIVE Chains(_)
Chains(n) ==
    IF n = 0 THEN CalleeAtoms
    ELSE {Application(ar, f, a) : ar \in 0..MaxArity, f \in Chains(n - 1), a \in ArgAtoms}

ChainBodies == UNION {Chains(n) : n \in 1..MaxChain}

SmallBodies ==
    {Symbol("x"), Symbol("z"), FunctionRef("g", 1),
     Application(0, FunctionRef("g", 1), Symbol("x")),
     Application(1, FunctionRef("g", 2), Symbol("x"))}
    \cup {Unsupported(t) : t \in UnsupportedTags}

FuncNames == << "f", "g", "h" >>

Signatures == { << a, c >> : a \in {<< >>, << "x" >>, << "x", "y" >>},
                             c \in {<< >>, << "c" >>, << "c", "d" >>} }

LowerInputs ==
    {<< FrontFunc("f", << "x", "y" >>, << "c" >>, b) >> : b \in ChainBodies}
    \cup {<< FrontFunc("f", sg[1], sg[2], b) >> :
            sg \in Signatures, b \in {Symbol("x"), Symbol("c"), Symbol("y"), Symbol("d")}}
    \cup UNION {{[k \in 1..n |-> FrontFunc(FuncNames[k], << "x" >>, << >>, bs[k])] :
                    bs \in [1..n -> SmallBodies]} : n \in 1..3}

\* no get_fn call made yet
NoEntry == [func |-> "", base |-> 0, ptr |-> None]

EmptyCode == [data |-> << >>, func_addrs |-> << >>, func_refs |-> << >>]

InitCommon ==
    /\ iidx = 1
    /\ code = EmptyCode
    /\ used_registers = << >>
    /\ local_to_register = << >>
    /\ register_lifetimes = << >>
    /\ err = ""
    /\ relocs = << >>
    /\ entry = NoEntry

InitLower ==
    /\ pc = "lower"
    /\ input \in LowerInputs
    /\ module = << >>
    /\ fidx = 1
    /\ InitCommon

NextLower == convert_function \/ convert_return

SpecLower == InitLower /\ [][NextLower]_vars

-----------------------------------------------------------------------------
(* codegen.rs: registers *)

ARG_REGISTER_COUNT == 6
NONARG_REGISTER_COUNT == 8

Reg(r)     == [r |-> r, n |-> 0]
Spilled(n) == [r |-> "Spilled", n |-> n]
Arg(n)     == [r |-> "Arg", n |-> n]

Bit32(v)      == [t |-> "Bit32", v |-> v]
Bit64(v)      == [t |-> "Bit64", v |-> v]
IRSpilled(v)  == [t |-> "Spilled", v |-> v]
IRArg(v)      == [t |-> "Arg", v |-> v]

convert_arg_register_id(id) ==
    CASE id = 0 -> Reg("Rdi")
      [] id = 1 -> Reg("Rsi")
      [] id = 2 -> Reg("Rdx")
      [] id = 3 -> Reg("Rcx")
      [] id = 4 -> Reg("R8")
      [] id = 5 -> Reg("R9")
      [] OTHER  -> Arg(id - ARG_REGISTER_COUNT)

convert_nonarg_register_id(id) ==
    CASE id = 0 -> Reg("Rbx")
      [] id = 1 -> Reg("Rdx")
      [] id = 2 -> Reg("R10")
      [] id = 3 -> Reg("R11")
      [] id = 4 -> Reg("R12")
      [] id = 5 -> Reg("R13")
      [] id = 6 -> Reg("R14")
      [] id = 7 -> Reg("R15")
      [] OTHER  -> Spilled(id - NONARG_REGISTER_COUNT)

\* only ever applied to Register::R11 (codegen.rs:480, 631)
revert_to_nonarg_register_id(reg) ==
    CASE reg.r = "Rbx" -> 0
      [] reg.r = "Rdx" -> 1
      [] reg.r = "R10" -> 2
      [] reg.r = "R11" -> 3
      [] reg.r = "R12" -> 4
      [] reg.r = "R13" -> 5
      [] reg.r = "R14" -> 6
      [] reg.r = "R15" -> 7
      [] reg.r = "Spilled" -> reg.n + NONARG_REGISTER_COUNT

is_callee_saved(reg) == reg.r \in {"Rbx", "Rsp", "Rbp", "R12", "R13", "R14", "R15"}

convert_to_instr_arg(reg) ==
    CASE reg.r = "Rax" -> Bit32(0)
      [] reg.r = "Rcx" -> Bit32(1)
      [] reg.r = "Rdx" -> Bit32(2)
      [] reg.r = "Rbx" -> Bit32(3)
      [] reg.r = "Rsp" -> Bit32(4)
      [] reg.r = "Rbp" -> Bit32(5)
      [] reg.r = "Rsi" -> Bit32(6)
      [] reg.r = "Rdi" -> Bit32(7)
      [] reg.r = "R8"  -> Bit64(0)
      [] reg.r = "R9"  -> Bit64(1)
      [] reg.r = "R10" -> Bit64(2)
      [] reg.r = "R11" -> Bit64(3)
      [] reg.r = "R12" -> Bit64(4)
      [] reg.r = "R13" -> Bit64(5)
      [] reg.r = "R14" -> Bit64(6)
      [] reg.r = "R15" -> Bit64(7)
      [] reg.r = "Spilled" -> IRSpilled(reg.n)
      [] reg.r = "Arg" -> IRArg(reg.n)

is_register(ir) == ir.t \in {"Bit32", "Bit64"}
is_64_bit(ir)   == IF ir.t = "Bit64" THEN 1 ELSE 0
get_register(ir) == ir.v
get_offset(ir)   == ir.v

-----------------------------------------------------------------------------
(* byte arithmetic *)

\* bitwise or of two bytes
RECURSIVE BitOr(_, _)
BitOr(a, b) ==
    IF a = 0 THEN b
    ELSE IF b = 0 THEN a
    ELSE 2 * BitOr(a \div 2, b \div 2) + (IF a % 2 = 1 \/ b % 2 = 1 THEN 1 ELSE 0)

Or3(a, b, c) == BitOr(BitOr(a, b), c)

Pow256(i) == IF i = 0 THEN 1 ELSE IF i = 1 THEN 256 ELSE IF i = 2 THEN 65536 ELSE 16777216

\* ((v >> (i * 8)) & 0xff) of a two's-complement value (an arithmetic shift,
\* so that negative values sign-extend as the `as u32` / `as u64` casts do)
ByteOf(v, i) ==
    IF i <= 3 THEN (v \div Pow256(i)) % 256
    ELSE ((v \div Pow256(3)) \div Pow256(i - 3)) % 256

LE(v, count) == [i \in 1..count |-> ByteOf(v, i - 1)]

Zeros(count) == [i \in 1..count |-> 0]

-----------------------------------------------------------------------------
(* maps (HashMap) as functions *)

Put(m, k, v) == [x \in (DOMAIN m) \cup {k} |-> IF x = k THEN v ELSE m[x]]

-----------------------------------------------------------------------------
(* codegen.rs generate_code: emission into an emitter state                *)
(*   c = [data, func_refs, panic]; after a panic nothing more is emitted   *)

EmitInFront(c, bytes) == IF c.panic # "" THEN c ELSE [c EXCEPT !.data = bytes \o @]

Emit(c, bytes) == IF c.panic # "" THEN c ELSE [c EXCEPT !.data = @ \o bytes]

InsertRefShifted(c, func, relative) ==
    IF c.panic # "" THEN c
    ELSE [c EXCEPT !.func_refs = Put(@, Len(c.data) - 1, [func |-> func, relative |-> relative])]

\* code.func_refs.insert(code.data.len(), (func, relative))
InsertRef(c, func, relative) ==
    IF c.panic # "" THEN c
    ELSE [c EXCEPT !.func_refs = Put(@, Len(c.data), [func |-> func, relative |-> relative])]

Abort(c, msg) == IF c.panic # "" THEN c ELSE [c EXCEPT !.panic = msg]

PushReg(c, ir) ==
    Emit(c, (IF is_64_bit(ir) # 0 THEN << 65 >> ELSE << >>) \o << BitOr(80, get_register(ir)) >>)

PopReg(c, ir) ==
    Emit(c, (IF is_64_bit(ir) # 0 THEN << 65 >> ELSE << >>) \o << BitOr(88, get_register(ir)) >>)

\* codegen.rs:374-380 (and 309-315 with PushReg): one push/pop per used
\* register, in the HashSet's iteration order
RECURSIVE PopUsedFrom(_, _, _)
PopUsedFrom(c, used, k) ==
    IF k > Len(used) THEN c
    ELSE PopUsedFrom(PopReg(c, convert_to_instr_arg(convert_nonarg_register_id(used[k]))),
                     used, k + 1)

PopUsedReversed(c, used) ==
    PopUsedFrom(c, [k \in 1..Len(used) |-> used[Len(used) + 1 - k]], 1)

PopUsed(c, used) == PopUsedFrom(c, used, 1)

RECURSIVE PushUsedFrom(_, _, _)
PushUsedFrom(c, used, k) ==
    IF k > Len(used) THEN c
    ELSE PushUsedFrom(PushReg(c, convert_to_instr_arg(convert_nonarg_register_id(used[k]))),
                      used, k + 1)

PushUsed(c, used) == PushUsedFrom(c, used, 1)

\* IrInstruction::Ret, codegen.rs:343-392
emit_ret(c, ssa, l2r, used) ==
    LET c1 ==
          IF Len(ssa.args) >= 1 /\ ssa.args[1].kind = "Local" THEN
              IF ssa.args[1].n \notin DOMAIN l2r THEN Abort(c, "unwrap")
              ELSE
                  LET register == l2r[ssa.args[1].n]
                      local_location == convert_to_instr_arg(register)
                  IN  IF register = Reg("Rax") THEN c
                      ELSE IF is_register(local_location) THEN
                          \* mov rax, local_reg
                          Emit(c, << BitOr(72, is_64_bit(local_location)), 137,
                                     BitOr(192, get_register(local_location) * 8) >>)
                      ELSE
                          \* mov rax, [rbp + offset]
                          Emit(c, << 72, 139, 133 >>
                                  \o LE(-(get_offset(local_location)) * 8, 4))
          ELSE c
        c2 == PopUsed(c1, used)
    IN  \* mov rsp, rbp; pop rbp; ret
        Emit(c2, << 72, 137, 236, 93, 195 >>)

\* IrInstruction::Load, codegen.rs:394-475
emit_load(c, ssa, l2r) ==
    IF ssa.local = None THEN c
    ELSE
        LET local_location == convert_to_instr_arg(l2r[ssa.local])
        IN  IF Len(ssa.args) >= 1 /\ ssa.args[1].kind = "Argument" THEN
                LET arg_location ==
                        convert_to_instr_arg(convert_arg_register_id(ssa.args[1].n))
                IN  CASE is_register(local_location) /\ is_register(arg_location) ->
                            \* mov local, arg
                            Emit(c, << Or3(72, is_64_bit(arg_location),
                                           is_64_bit(local_location) * 4),
                                       137,
                                       Or3(192, get_register(arg_location) * 8,
                                           get_register(local_location)) >>)
                      [] ~is_register(local_location) /\ is_register(arg_location) ->
                            Abort(c, "todo: load register argument into spilled local")
                      [] is_register(local_location) /\ ~is_register(arg_location) ->
                            \* mov local, [rbp + offset]
                            Emit(c, << BitOr(72, is_64_bit(local_location) * 4), 139,
                                       Or3(128, get_register(local_location) * 8,
                                           get_register(convert_to_instr_arg(Reg("Rbp")))) >>
                                    \o LE((get_offset(arg_location) + 2) * 8, 4))
                      [] OTHER ->
                            Abort(c, "todo: load stack argument into spilled local")
            ELSE IF Len(ssa.args) >= 1 /\ ssa.args[1].kind = "Function" THEN
                IF is_register(local_location) THEN
                    \* mov local, func
                    Emit(InsertRef(Emit(c, << BitOr(72, is_64_bit(local_location)),
                                              BitOr(184, get_register(local_location)) >>),
                                   ssa.args[1].f, FALSE),
                         Zeros(8))
                ELSE Abort(c, "todo: load function into spilled local")
            ELSE c

\* mov arg, func with its absolute reference (codegen.rs:532-545)
MovFunc(c, arg_location, func) ==
    Emit(InsertRef(Emit(c, << BitOr(72, is_64_bit(arg_location)),
                              BitOr(184, get_register(arg_location)) >>),
                   func, FALSE),
         Zeros(8))

\* mov arg, local (codegen.rs:509-514 and 522-526)
MovArg(c, arg_location, local_location) ==
    Emit(c, << Or3(72, is_64_bit(arg_location), is_64_bit(local_location) * 4),
               139,
               Or3(192, get_register(arg_location) * 8, get_register(local_location)) >>)

\* number of argument registers pushed around a call (codegen.rs:487):
\* the operands after the callee zipped with 0..func.argc of the CALLER
PushedArgCount(ssa, argc) ==
    LET n == IF Len(ssa.args) = 0 THEN 0 ELSE Len(ssa.args) - 1
    IN  IF n < argc THEN n ELSE argc

\* codegen.rs:486-498: stops at the first index that is not a register
RECURSIVE PushArgs(_, _, _)
PushArgs(c, i, count) ==
    IF i >= count THEN c
    ELSE LET reg == convert_to_instr_arg(convert_arg_register_id(i))
         IN  IF ~is_register(reg) THEN c
             ELSE PushArgs(PushReg(c, reg), i + 1, count)

\* codegen.rs:617-629: from the last index down, skipping non-registers
RECURSIVE PopArgs(_, _)
PopArgs(c, i) ==
    IF i < 0 THEN c
    ELSE LET reg == convert_to_instr_arg(convert_arg_register_id(i))
         IN  IF ~is_register(reg) THEN PopArgs(c, i - 1)
             ELSE PopArgs(PopReg(c, reg), i - 1)

\* codegen.rs:501-551: operand k+1 of the call goes to argument register k - 1
RECURSIVE MarshalRegs(_, _, _, _)
MarshalRegs(c, ssa, l2r, k) ==
    IF k > Len(ssa.args) \/ c.panic # "" THEN c
    ELSE
        LET i   == k - 2
            arg == ssa.args[k]
            arg_location == convert_to_instr_arg(convert_arg_register_id(i))
            c1 ==
              CASE arg.kind = "Local" ->
                     IF arg.n \notin DOMAIN l2r THEN Abort(c, "unwrap")
                     ELSE LET local_location == convert_to_instr_arg(l2r[arg.n])
                          IN  IF is_register(local_location)
                              THEN MovArg(c, arg_location, local_location)
                              ELSE Abort(c, "todo: spilled local as call argument")
                [] arg.kind = "Argument" ->
                     LET local_location ==
                             convert_to_instr_arg(convert_arg_register_id(arg.n))
                     IN  IF is_register(local_location)
                         THEN MovArg(c, arg_location, local_location)
                         ELSE Abort(c, "todo: stack argument as call argument")
                [] OTHER -> MovFunc(c, arg_location, arg.f)
        IN  IF i = ARG_REGISTER_COUNT - 1 THEN c1
            ELSE MarshalRegs(c1, ssa, l2r, k + 1)

\* codegen.rs:553-577: operands beyond the sixth, last one first
RECURSIVE MarshalStack(_, _, _)
MarshalStack(c, ssa, k) ==
    IF k < ARG_REGISTER_COUNT + 2 \/ c.panic # "" THEN c
    ELSE
        LET arg == ssa.args[k]
            c1  == IF arg.kind = "Function"
                   THEN Emit(MovFunc(c, Bit32(0), arg.f), << 80 >>)
                   ELSE Abort(c, "todo: non-function stack-passed argument")
        IN  MarshalStack(c1, ssa, k - 1)

\* codegen.rs:579-595
EmitCallInstr(c, ssa) ==
    IF Len(ssa.args) = 0 THEN Abort(c, "unwrap")
    ELSE IF ssa.args[1].kind = "Function"
    THEN Emit(InsertRef(Emit(c, << 232 >>), ssa.args[1].f, TRUE), Zeros(4))
    ELSE Abort(c, "todo: call through a value")

ResultRegisterAssigned(ssa) == convert_nonarg_register_id(ssa.local_register)

\* codegen.rs:598: the register is looked up by the local's id
ResultRegister(ssa) == convert_nonarg_register_id(ssa.local)

\* codegen.rs:597-612
MoveResult(c, ssa) ==
    IF ssa.local = None THEN c
    ELSE LET local_location == convert_to_instr_arg(ResultRegister(ssa))
         IN  IF is_register(local_location)
             THEN Emit(c, << BitOr(72, is_64_bit(local_location)), 139,
                             Or3(192, get_register(local_location) * 8,
                                 get_register(convert_to_instr_arg(Reg("Rax")))) >>)
             ELSE Abort(c, "todo: spilled call result")

R11Live(lifetimes) ==
    lifetimes[revert_to_nonarg_register_id(Reg("R11")) + 1] # 0

\* IrInstruction::Call(known_arity), codegen.rs:479-636
emit_call(c, ssa, l2r, lifetimes, argc) ==
    LET c1 == IF R11Live(lifetimes) THEN Emit(c, << 65, 83 >>) ELSE c
        c2 == PushArgs(c1, 0, PushedArgCount(ssa, argc))
        c3 == IF ssa.instr = "Call"
              THEN MoveResult(
                     EmitCallInstr(
                       MarshalStack(MarshalRegs(c2, ssa, l2r, 2), ssa, Len(ssa.args)),
                       ssa),
                     ssa)
              ELSE Abort(c2, "todo: call of unknown arity")
        c4 == PopArgs(c3, PushedArgCount(ssa, argc) - 1)
    IN  IF R11Live(lifetimes) THEN Emit(c4, << 65, 91 >>) ELSE c4

\* IrInstruction::Apply, codegen.rs:477
emit_apply(c) == Abort(c, "todo: apply")

-----------------------------------------------------------------------------
(* backends/common.rs linear_scan, by its contract: every produced value   *)
(* gets a pool slot below the pool size or a spill slot from the pool size *)
(* up, and two values whose lifetime intervals overlap get different slots *)

AllocSlots == (0..MaxPoolSlot) \cup (NONARG_REGISTER_COUNT..(NONARG_REGISTER_COUNT + MaxSpill - 1))

Producers(ssas) == {p \in 1..Len(ssas) : ssas[p].local # None}

LastUse(ssas, p) ==
    IF ssas[p].local_lifetime = 0 THEN p ELSE p + ssas[p].local_lifetime - 1

Overlap(ssas, p, q) == p < q /\ q <= LastUse(ssas, p)

linear_scan(ssas) ==
    {[p \in 1..Len(ssas) |->
        IF p \in Producers(ssas) THEN [ssas[p] EXCEPT !.local_register = a[p]] ELSE ssas[p]] :
     a \in {b \in [Producers(ssas) -> AllocSlots] :
                \A p, q \in Producers(ssas) : Overlap(ssas, p, q) => b[p] # b[q]}}

\* the orders a HashSet of these elements can iterate in
Orders(S) == {o \in [1..Cardinality(S) -> S] : \A i, j \in 1..Cardinality(S) : o[i] = o[j] => i = j}

-----------------------------------------------------------------------------
(* codegen.rs generate_code, one step per loop iteration *)

Padding(len) == Zeros((16 - (len % 16)) % 16)

HeaderSwapped(argc) == Zeros(8) \o LE(argc, 8)

\* codegen.rs:261-286: argc as a little-endian usize, then 8 zero bytes
Header(argc) == LE(argc, 8) \o Zeros(8)

UsedRegistersAll(ssas) ==
    {ssas[p].local_register : p \in Producers(ssas)}

\* codegen.rs:301-306
UsedRegisters(ssas) ==
    {ssas[p].local_register : p \in
        {q \in Producers(ssas) :
            is_callee_saved(convert_nonarg_register_id(ssas[q].local_register))}}

Emitter(cd) == [data |-> cd.data, func_refs |-> cd.func_refs, panic |-> ""]

\* codegen.rs:256-319: padding, header, function start, prologue, register
\* assignment, pushes of the used callee-saved registers
gen_function_start ==
    /\ pc = "gen"
    /\ fidx <= Len(module)
    /\ \E ssas \in linear_scan(module[fidx].ssas) :
       \E used \in Orders(UsedRegisters(ssas)) :
          LET func  == module[fidx]
              data1 == code.data \o Padding(Len(code.data)) \o Header(func.argc)
              start == Len(data1)
              c0    == [data |-> data1 \o << 85, 72, 137, 229 >>,
                        func_refs |-> code.func_refs, panic |-> ""]
              c1    == PushUsed(c0, used)
          IN  /\ module' = [module EXCEPT ![fidx].ssas = ssas]
              /\ code' = [data |-> c1.data,
                          func_addrs |-> Put(code.func_addrs, func.name,
                                             [start |-> start, end |-> start + 1]),
                          func_refs |-> c1.func_refs]
              /\ used_registers' = used
    /\ local_to_register' = << >>
    /\ register_lifetimes' = [k \in 1..NONARG_REGISTER_COUNT |-> 0]
    /\ iidx' = 1
    /\ pc' = "instr"
    /\ UNCHANGED << input, fidx, err, relocs, entry >>

Decremented(lifetimes) ==
    [k \in 1..Len(lifetimes) |-> IF lifetimes[k] # 0 THEN lifetimes[k] - 1 ELSE 0]

\* codegen.rs:320-637: one instruction
gen_instruction ==
    /\ pc = "instr"
    /\ iidx <= Len(module[fidx].ssas)
    /\ LET func == module[fidx]
           ssa  == func.ssas[iidx]
           dec  == Decremented(register_lifetimes)
           \* codegen.rs:330-334: the indexed store is taken only when the
           \* index is beyond the end of the Vec
           oob  == ssa.local # None /\ Len(dec) < ssa.local_register
           lts  == IF ssa.local # None /\ ~oob THEN Append(dec, ssa.local_lifetime) ELSE dec
           l2r  == IF ssa.local # None
                   THEN Put(local_to_register, ssa.local,
                            convert_nonarg_register_id(ssa.local_register))
                   ELSE local_to_register
           c0   == Emitter(code)
           c1   == CASE oob -> Abort(c0, "index out of bounds: register_lifetimes")
                     [] ssa.instr = "Ret"   -> emit_ret(c0, ssa, l2r, used_registers)
                     [] ssa.instr = "Load"  -> emit_load(c0, ssa, l2r)
                     [] ssa.instr = "Apply" -> emit_apply(c0)
                     [] OTHER               -> emit_call(c0, ssa, l2r, lts, func.argc)
       IN  /\ code' = [code EXCEPT !.data = c1.data, !.func_refs = c1.func_refs]
           /\ register_lifetimes' = lts
           /\ local_to_register' = IF oob THEN local_to_register ELSE l2r
           /\ IF c1.panic # ""
              THEN pc' = "panic" /\ err' = c1.panic /\ iidx' = iidx
              ELSE pc' = pc /\ err' = err /\ iidx' = iidx + 1
    /\ UNCHANGED << input, module, fidx, used_registers, relocs, entry >>

\* codegen.rs:639
gen_function_end ==
    /\ pc = "instr"
    /\ iidx > Len(module[fidx].ssas)
    /\ code' = [code EXCEPT !.func_addrs[module[fidx].name].end = Len(code.data)]
    /\ fidx' = fidx + 1
    /\ pc' = "gen"
    /\ UNCHANGED << input, module, iidx, used_registers, local_to_register,
                    register_lifetimes, err, relocs, entry >>

\* codegen.rs:642
gen_return ==
    /\ pc = "gen"
    /\ fidx > Len(module)
    /\ pc' = "done"
    /\ UNCHANGED << input, module, fidx, iidx, code, used_registers, local_to_register,
                    register_lifetimes, err, relocs, entry >>

-----------------------------------------------------------------------------
(* codegen.rs GeneratedCode::relocate *)

RelativeValueNoWidth(start, code_addr) == start - code_addr

RelativeValue(start, code_addr) == start - code_addr - 4

RelocValueNoBase(ref, range, code_addr, base) ==
    IF ref.relative THEN RelativeValue(range.start, code_addr) ELSE range.start

\* codegen.rs:186-190: the value and the number of bytes of one reference
RelocValue(ref, range, code_addr, base) ==
    IF ref.relative THEN RelativeValue(range.start, code_addr) ELSE base + range.start

\* variant that writes 8 bytes for every reference
RelocWidthEight(ref) == 8

\* codegen.rs:187 and 189: the number of bytes written
RelocWidth(ref) == IF ref.relative THEN 4 ELSE 8

\* codegen.rs:192-198: the bytes from code_addr on, as far as the buffer goes
Patch(data, code_addr, addr, byte_count) ==
    [k \in 1..Len(data) |->
        IF k - 1 >= code_addr /\ k - 1 - code_addr < byte_count
        THEN ByteOf(addr, k - 1 - code_addr) ELSE data[k]]

Min(S) == CHOOSE x \in S : \A y \in S : x <= y

\* the loop over func_refs; a reference whose target is not in func_addrs is
\* passed over
RECURSIVE relocate_refs(_, _, _)
relocate_refs(cd, todo, base) ==
    IF todo = {} THEN cd
    ELSE LET code_addr == Min(todo)
             ref == cd.func_refs[code_addr]
         IN  relocate_refs(
                IF ref.func \in DOMAIN cd.func_addrs
                THEN [cd EXCEPT !.data =
                        Patch(cd.data, code_addr,
                              RelocValue(ref, cd.func_addrs[ref.func], code_addr, base),
                              RelocWidth(ref))]
                ELSE cd,
                todo \ {code_addr}, base)

Bases == {4096, 70000}

relocate ==
    /\ pc = "done"
    /\ Len(relocs) < MaxRelocs
    /\ \E base \in Bases :
        /\ code' = relocate_refs(code, DOMAIN code.func_refs, base)
        /\ relocs' = Append(relocs, base)
    /\ UNCHANGED << pc, input, module, fidx, iidx, used_registers, local_to_register,
                    register_lifetimes, err, entry >>

-----------------------------------------------------------------------------
(* codegen.rs GeneratedCode::get_fn *)

get_fn_end(cd, func, base) ==
    IF func \in DOMAIN cd.func_addrs THEN base + cd.func_addrs[func].end ELSE None

\* codegen.rs:204-211: the pointer returned, None when the name is not in
\* func_addrs
get_fn(cd, func, base) ==
    IF func \in DOMAIN cd.func_addrs THEN base + cd.func_addrs[func].start ELSE None

\* names get_fn is asked for: functions of the modules and others
QueryNames == {"f", "g", "nope"}

call_get_fn ==
    /\ pc = "done"
    /\ \E func \in QueryNames : \E base \in Bases :
        entry' = [func |-> func, base |-> base, ptr |-> get_fn(code, func, base)]
    /\ UNCHANGED << pc, input, module, fidx, iidx, code, used_registers,
                    local_to_register, register_lifetimes, err, relocs >>

-----------------------------------------------------------------------------
(* inputs of the whole pipeline *)

\* Scenario A: g x = x; f x = g x
ScenarioA ==
    << FrontFunc("g", << "x" >>, << >>, Symbol("x")),
       FrontFunc("f", << "x" >>, << >>,
                 Application(0, FunctionRef("g", 1), Symbol("x"))) >>

PipelineInputs ==
    {ScenarioA,
     << FrontFunc("g", << "x" >>, << >>, Symbol("x")) >>,
     << FrontFunc("f", << "x" >>, << >>, FunctionRef("g", 1)),
        FrontFunc("g", << "x" >>, << >>, Symbol("x")) >>,
     << FrontFunc("f", << "x" >>, << >>,
                  Application(1, FunctionRef("g", 2), Symbol("x"))) >>,
     << FrontFunc("f", << "x", "y" >>, << >>,
                  Application(0, [Symbol("x") EXCEPT !.arity = 0], Symbol("y"))) >>,
     << FrontFunc("g", << "x" >>, << >>, Symbol("x")),
        FrontFunc("f", << "x" >>, << >>, Unsupported("Match")) >>}

\* backend functions handed to generate_code directly (IrModule and its
\* fields are public), with the lifetimes calculate_lifetimes gives them
Ssa(local, instr, args) == IrSsa(local, instr, args)

Direct(name, argc, ssas) == IrFunction(name, argc, calculate_lifetimes(ssas))

RetOf(l) == Ssa(None, "Ret", << Local(l) >>)

BodyId == << Ssa(0, "Load", << Argument(0) >>), RetOf(0) >>

CallerBodies ==
    { << Ssa(0, "Call", << Function("g"), Argument(0) >>), RetOf(0) >>,
      << Ssa(0, "Load", << Argument(0) >>),
         Ssa(1, "Call", << Function("g"), Local(0) >>), RetOf(1) >>,
      << Ssa(0, "Load", << Function("g") >>), RetOf(0) >>,
      << Ssa(0, "Call", << Function("g"), Function("g") >>), RetOf(0) >>,
      << Ssa(0, "Call", << Function("g"), Argument(1), Argument(0) >>), RetOf(0) >>,
      << Ssa(0, "Call", << Function("g"), Argument(0) >>),
         Ssa(1, "Call", << Function("f"), Local(0) >>), RetOf(1) >> }

SingleBodies ==
    { BodyId,
      << Ssa(0, "Load", << Argument(6) >>), RetOf(0) >>,
      << Ssa(0, "Call", << Function("nope"), Argument(0) >>), RetOf(0) >>,
      << Ssa(0, "Load", << Argument(0) >>),
         Ssa(1, "Call?", << Function("f"), Local(0) >>), RetOf(1) >>,
      << Ssa(0, "Load", << Function("f") >>), Ssa(1, "Load", << Argument(0) >>),
         Ssa(2, "Apply", << Local(0), Local(1) >>), RetOf(2) >>,
      << Ssa(0, "Call", << Function("f"), Argument(0) >>),
         Ssa(1, "Call", << Function("f"), Local(0) >>), RetOf(1) >>,
      << Ssa(0, "Load", << Argument(0) >>),
         Ssa(1, "Call", << Function("f"), Argument(0) >>),
         Ssa(2, "Call", << Function("f"), Local(0) >>), RetOf(2) >>,
      << Ssa(0, "Call", << Function("f"), Function("f"), Argument(1), Argument(0),
                           Function("f"), Function("f"), Function("f"),
                           Function("f"), Function("f") >>), RetOf(0) >> }

DirectModules ==
    {<< Direct("f", 2, b), Direct("g", 1, BodyId) >> : b \in CallerBodies}
    \cup {<< Direct("g", 1, BodyId), Direct("f", 2, b) >> : b \in CallerBodies}
    \cup {<< Direct("f", 7, b) >> : b \in SingleBodies}
    \cup {<< Direct("g", 1, BodyId), Direct("f", 258, BodyId) >>}

Init ==
    /\ \/ /\ pc = "lower"
          /\ input \in PipelineInputs
          /\ module = << >>
       \/ /\ pc = "gen"
          /\ input = << >>
          /\ module \in DirectModules
    /\ fidx = 1
    /\ InitCommon

Next ==
    \/ convert_function
    \/ convert_return
    \/ gen_function_start
    \/ gen_instruction
    \/ gen_function_end
    \/ gen_return
    \/ relocate
    \/ call_get_fn

Spec == Init /\ [][Next]_vars

-----------------------------------------------------------------------------
(* calculate_lifetimes on its own: instruction lists are built one          *)
(* instruction at a time (value-producing or not, referencing any earlier   *)
(* values), then the analysis is run on the list                            *)

life_push ==
    /\ pc = "life"
    /\ Len(module[1].ssas) < MaxLifeLen
    /\ \E produces \in BOOLEAN :
       \E refs \in SUBSET {module[1].ssas[p].local : p \in Producers(module[1].ssas)} :
          LET ssas == module[1].ssas
              args == [k \in 1..Cardinality(refs) |->
                         Local(CHOOSE l \in refs :
                                 Cardinality({m \in refs : m < l}) = k - 1)]
              ssa  == IF produces
                      THEN IrSsa(get_next_local(ssas), "Call", << Function("g") >> \o args)
                      ELSE IrSsa(None, "Ret", args)
          IN  module' = [module EXCEPT ![1].ssas = Append(ssas, ssa)]
    /\ UNCHANGED << pc, input, fidx, iidx, code, used_registers, local_to_register,
                    register_lifetimes, err, relocs, entry >>

life_run ==
    /\ pc = "life"
    /\ module' = [module EXCEPT ![1].ssas = calculate_lifetimes(module[1].ssas)]
    /\ pc' = "lifedone"
    /\ UNCHANGED << input, fidx, iidx, code, used_registers, local_to_register,
                    register_lifetimes, err, relocs, entry >>

InitLife ==
    /\ pc = "life"
    /\ input = << >>
    /\ module = << IrFunction("f", 1, << >>) >>
    /\ fidx = 1
    /\ InitCommon

NextLife == life_push \/ life_run

SpecLife == InitLife /\ [][NextLife]_vars

-----------------------------------------------------------------------------
(* x86-64 reading of the emitted bytes: the instruction forms generate_code *)
(* emits, decoded by the architecture's rules (REX.W/R/B, ModRM), and their *)
(* effect on a symbolic machine state. Registers are numbered as the        *)
(* hardware does: rax 0, rcx 1, rdx 2, rbx 3, rsp 4, rbp 5, rsi 6, rdi 7,   *)
(* r8..r15 8..15.                                                           *)

RAX == 0
RSP == 4
RBP == 5

CalleeSavedRegs == {3, 12, 13, 14, 15}

CallerSavedRegs == {0, 1, 2, 6, 7, 8, 9, 10, 11}

\* the instruction at offset p (0-based): op, dst, src, len
Decode(data, p) ==
    LET b0     == data[p + 1]
        hasRex == b0 >= 64 /\ b0 <= 79
        rexW   == IF hasRex THEN (b0 \div 8) % 2 ELSE 0
        rexR   == IF hasRex THEN (b0 \div 4) % 2 ELSE 0
        rexB   == IF hasRex THEN b0 % 2 ELSE 0
        q      == IF hasRex THEN p + 1 ELSE p
        pre    == q - p
        o      == IF q + 1 <= Len(data) THEN data[q + 1] ELSE 256
        m      == IF q + 2 <= Len(data) THEN data[q + 2] ELSE 0
        mod    == m \div 64
        reg    == ((m \div 8) % 8) + 8 * rexR
        rm     == (m % 8) + 8 * rexB
    IN  CASE o >= 80 /\ o <= 87 ->
               [op |-> "push", dst |-> 0, src |-> (o - 80) + 8 * rexB, len |-> pre + 1]
          [] o >= 88 /\ o <= 95 ->
               [op |-> "pop", dst |-> (o - 88) + 8 * rexB, src |-> 0, len |-> pre + 1]
          [] o = 137 /\ mod = 3 /\ rexW = 1 ->
               [op |-> "mov", dst |-> rm, src |-> reg, len |-> pre + 2]
          [] o = 139 /\ mod = 3 /\ rexW = 1 ->
               [op |-> "mov", dst |-> reg, src |-> rm, len |-> pre + 2]
          [] o = 139 /\ mod = 2 /\ m % 8 # 4 /\ rexW = 1 ->
               [op |-> "load", dst |-> reg, src |-> rm, len |-> pre + 6]
          [] o >= 184 /\ o <= 191 /\ rexW = 1 ->
               [op |-> "movimm", dst |-> (o - 184) + 8 * rexB, src |-> 0, len |-> pre + 9]
          [] o = 131 /\ m = 196 /\ rexW = 1 /\ q + 3 <= Len(data) ->
               [op |-> "addrsp", dst |-> RSP, src |-> data[q + 3], len |-> pre + 3]
          [] o = 232 /\ ~hasRex ->
               [op |-> "call", dst |-> 0, src |-> 0, len |-> 5]
          [] o = 195 /\ ~hasRex ->
               [op |-> "ret", dst |-> 0, src |-> 0, len |-> 1]
          [] OTHER ->
               [op |-> "bad", dst |-> 0, src |-> 0, len |-> 1]

\* symbolic values: the value register r held on entry, the frame pointer
\* set up by the prologue, or anything else
EntryValue(r) == [kind |-> "entry", r |-> r]
FrameValue == [kind |-> "frame", r |-> 0]
Junk == [kind |-> "junk", r |-> 0]

EntryMachine ==
    [regs |-> [r \in 0..15 |-> EntryValue(r)], stack |-> << >>, frame |-> 0,
     halted |-> FALSE, wrote |-> {}, pushed |-> << >>, popped |-> << >>,
     adjusted |-> 0]

\* effect of one decoded instruction
Step(st, ins) ==
    CASE ins.op = "push" ->
           [st EXCEPT !.stack = Append(@, st.regs[ins.src]),
                      !.pushed = Append(@, ins.src)]
      [] ins.op = "pop" ->
           [st EXCEPT !.regs[ins.dst] =
                          IF st.stack = << >> THEN Junk ELSE st.stack[Len(st.stack)],
                      !.stack = IF st.stack = << >> THEN << >>
                                ELSE SubSeq(st.stack, 1, Len(st.stack) - 1),
                      !.popped = Append(@, ins.dst)]
      [] ins.op = "mov" /\ ins.dst = RBP /\ ins.src = RSP ->
           [st EXCEPT !.regs[RBP] = FrameValue, !.frame = Len(st.stack)]
      [] ins.op = "mov" /\ ins.dst = RSP ->
           IF ins.src = RBP /\ st.regs[RBP] = FrameValue
           THEN [st EXCEPT !.stack = SubSeq(st.stack, 1, Min({st.frame, Len(st.stack)}))]
           ELSE [st EXCEPT !.stack = << >>, !.wrote = @ \cup {RSP}]
      [] ins.op = "mov" ->
           [st EXCEPT !.regs[ins.dst] = IF ins.src = RSP THEN Junk ELSE st.regs[ins.src],
                      !.wrote = @ \cup {ins.dst}]
      [] ins.op = "addrsp" ->
           \* add rsp, imm8 drops imm8 / 8 slots
           [st EXCEPT !.stack = IF Len(st.stack) <= ins.src \div 8 THEN << >>
                                ELSE SubSeq(st.stack, 1, Len(st.stack) - (ins.src \div 8)),
                      !.adjusted = @ + (ins.src \div 8)]
      [] ins.op \in {"load", "movimm"} ->
           [st EXCEPT !.regs[ins.dst] = Junk, !.wrote = @ \cup {ins.dst}]
      [] ins.op = "call" ->
           \* the callee keeps the callee-saved registers and may change the others
           [st EXCEPT !.regs = [r \in 0..15 |-> IF r \in CallerSavedRegs THEN Junk
                                                ELSE st.regs[r]]]
      [] OTHER -> [st EXCEPT !.halted = TRUE]

\* run from offset p to the function's ret (or to the end of its bytes)
RECURSIVE Run(_, _, _, _)
Run(data, p, end, st) ==
    IF p >= end \/ st.halted THEN st
    ELSE LET ins == Decode(data, p)
         IN  IF p + ins.len > end THEN [st EXCEPT !.halted = TRUE]
             ELSE Run(data, p + ins.len, end, Step(st, ins))

\* the machine state at the ret of the function `name`
AtReturn(name) ==
    Run(code.data, code.func_addrs[name].start, code.func_addrs[name].end, EntryMachine)

-----------------------------------------------------------------------------
(* Properties *)

LowerPanics ==
    {"unwrap", "todo: symbols that aren't arguments"}
    \cup {"todo: " \o t : t \in UnsupportedTags}

Max(S) == CHOOSE x \in S : \A y \in S : y <= x

\* the little-endian signed 32-bit value of the 4 bytes at offset o
Signed32At(data, o) ==
    data[o + 1] + 256 * data[o + 2] + 65536 * data[o + 3]
    + 16777216 * (IF data[o + 4] >= 128 THEN data[o + 4] - 256 ELSE data[o + 4])

\* the 8 bytes at offset o are the little-endian encoding of v (0 <= v < 2^31)
Unsigned64AtIs(data, o, v) ==
    /\ data[o + 4] < 128
    /\ \A k \in 5..8 : data[o + k] = 0
    /\ data[o + 1] + 256 * data[o + 2] + 65536 * data[o + 3] + 16777216 * data[o + 4] = v

Refs == DOMAIN code.func_refs

Resolved(o) == code.func_refs[o].func \in DOMAIN code.func_addrs

TargetStart(o) == code.func_addrs[code.func_refs[o].func].start

\* every value of the module has been given a pool register (no spill slot)
AllInRegisters ==
    \A k \in 1..Len(module) : \A p \in Producers(module[k].ssas) :
        module[k].ssas[p].local_register < NONARG_REGISTER_COUNT

\* C1: Scenario A (g x = x, f x = g x) goes through lowering and
\* generate_code without the process aborting, so that f can be relocated
\* and run.
C1_ScenarioACompiles ==
    (input = ScenarioA /\ AllInRegisters) => pc # "panic"

\* C2: after relocate, the 4 bytes at every relative reference o whose
\* target starts at s read, little-endian and signed, s - o - 4, for targets
\* emitted before (negative value) and after the reference.
C2_RelativeDisplacement ==
    relocs # << >> =>
        \A o \in Refs :
            (code.func_refs[o].relative /\ Resolved(o)) =>
                Signed32At(code.data, o) = TargetStart(o) - o - 4

C2_Witness ==
    /\ relocs # << >>
    /\ \E o1, o2 \in Refs :
        /\ code.func_refs[o1].relative /\ Resolved(o1) /\ TargetStart(o1) < o1
        /\ Signed32At(code.data, o1) < 0
        /\ code.func_refs[o2].relative /\ Resolved(o2) /\ TargetStart(o2) > o2

\* C3: after relocate(base), the 8 bytes at every absolute reference o whose
\* target starts at s read, little-endian, base + s.
C3_AbsoluteAddress ==
    relocs # << >> =>
        \A o \in Refs :
            (~code.func_refs[o].relative /\ Resolved(o)) =>
                Unsigned64AtIs(code.data, o, relocs[Len(relocs)] + TargetStart(o))

C3_Witness ==
    /\ Len(relocs) = 2
    /\ relocs[1] # relocs[2]
    /\ \E o \in Refs : ~code.func_refs[o].relative /\ Resolved(o) /\ TargetStart(o) > o

\* C4: relocate does not complete when a recorded reference names a function
\* that is not in the function-address table.
C4_MissingTargetFails ==
    relocs # << >> => \A o \in Refs : Resolved(o)

\* C5: generate_code does not abort the process on a Call of unknown arity or
\* an ApplyPartial (it reports an emission error instead).
C5_UnsupportedInstrRejected ==
    ~(pc = "panic" /\ err \in {"todo: call of unknown arity", "todo: apply"})

\* C6: an unsupported construct in one function's body does not abort the
\* conversion: the functions lowered before it stay in the result and the
\* conversion goes on with the functions after it.
C6_LoweringErrorIsLocal ==
    err \in LowerPanics => (pc # "panic" /\ Len(module) >= fidx - 1)

\* C7: every function produced by the lowering has exactly one Ret, as its
\* last instruction, without produced value, whose operand is the value
\* produced last in the body.
C7_SingleFinalReturn ==
    \A k \in 1..Len(module) :
        LET ssas == module[k].ssas
            n    == Len(ssas)
        IN  /\ n >= 1
            /\ {p \in 1..n : ssas[p].instr = "Ret"} = {n}
            /\ ssas[n].local = None
            /\ \E p \in 1..(n - 1) :
                /\ ssas[p].local # None
                /\ \A q \in (p + 1)..(n - 1) : ssas[q].local = None
                /\ ssas[n].args = << Local(ssas[p].local) >>

C7_Witness ==
    /\ pc = "gen"
    /\ Len(module) = 3
    /\ \E k \in 1..Len(module) :
        /\ Len(module[k].ssas) >= 4
        /\ \E p \in 1..Len(module[k].ssas) : module[k].ssas[p].instr = "Call"

\* C8: after calculate_lifetimes the lifetime of the value produced at
\* position i is 0 iff no later instruction has it as an operand, and
\* otherwise (position of the last later instruction that has it) - i + 1.
C8_LifetimeIsLastReference ==
    pc = "lifedone" =>
        \A i \in Producers(module[1].ssas) :
            LET ssas  == module[1].ssas
                later == {j \in (i + 1)..Len(ssas) : References(ssas[j], ssas[i].local)}
            IN  /\ (ssas[i].local_lifetime = 0) <=> (later = {})
                /\ later # {} => ssas[i].local_lifetime = (Max(later) - i) + 1

C8_Witness ==
    /\ pc = "lifedone"
    /\ \E i \in Producers(module[1].ssas) :
        LET ssas  == module[1].ssas
            later == {j \in (i + 1)..Len(ssas) : References(ssas[j], ssas[i].local)}
        IN  /\ Cardinality(later) >= 2
            /\ i >= 2
            /\ ssas[i - 1].local = None
            /\ ssas[i].local_lifetime = 3

\* C9: in every lowered function the produced-value ids are 0, 1, 2, ... in
\* program order, and every Local operand names an id produced by a strictly
\* earlier instruction of the function.
C9_IdsIncreaseDefBeforeUse ==
    \A k \in 1..Len(module) :
        LET ssas == module[k].ssas
        IN  /\ \A p \in Producers(ssas) :
                    ssas[p].local = Cardinality({q \in Producers(ssas) : q < p})
            /\ \A p \in 1..Len(ssas) : \A a \in 1..Len(ssas[p].args) :
                    ssas[p].args[a].kind = "Local" =>
                        \E q \in 1..(p - 1) : ssas[q].local = ssas[p].args[a].n

C9_Witness ==
    /\ pc = "gen"
    /\ \E k \in 1..Len(module) :
        \E p \in 1..Len(module[k].ssas) :
            /\ module[k].ssas[p].instr = "Call"
            /\ Len(module[k].ssas[p].args) >= 3
            /\ module[k].ssas[p].local >= 4

\* C10: every callee-saved register (rbx, r12..r15) that the body of an
\* emitted function writes, the register receiving a Call's result included,
\* is pushed by the prologue and popped by the epilogue, and holds at the
\* function's ret the value it held on entry.
C10_CalleeSavedPreserved ==
    pc = "done" =>
        \A name \in DOMAIN code.func_addrs :
            LET st == AtReturn(name)
            IN  \A r \in CalleeSavedRegs :
                    /\ st.regs[r] = EntryValue(r)
                    /\ r \in st.wrote =>
                        /\ \E k \in 1..Len(st.pushed) : st.pushed[k] = r
                        /\ \E k \in 1..Len(st.popped) : st.popped[k] = r

\* C11: once relocate has run on an artifact, no later operation on it (a
\* further relocate with any base, get_fn) changes a byte of the buffer.
C11_BufferFrozenAfterRelocate ==
    [][relocs # << >> => code'.data = code.data]_vars

\* the function of the module that carries the name `name`
FuncNamed(name) == {k \in 1..Len(module) : module[k].name = name}

\* the bytes push rbp; mov rbp, rsp stand at offset start of the buffer
PrologueAt(start) ==
    /\ start + 4 <= Len(code.data)
    /\ SubSeq(code.data, start + 1, start + 4) = << 85, 72, 137, 229 >>

\* C12: get_fn(name, base) returns base + start, start being the offset of
\* the first prologue byte of the function called name, for every function
\* of the module, and None for every other name.
C12_GetFnEntryPoint ==
    entry # NoEntry =>
        IF FuncNamed(entry.func) # {}
        THEN /\ entry.ptr # None
             /\ entry.ptr - entry.base = code.func_addrs[entry.func].start
             /\ PrologueAt(entry.ptr - entry.base)
             /\ \E k \in FuncNamed(entry.func) :
                    SubSeq(code.data, entry.ptr - entry.base - 15, entry.ptr - entry.base - 8)
                        = LE(module[k].argc, 8)
        ELSE entry.ptr = None

C12_Witness ==
    /\ relocs # << >>
    /\ entry.func = "f"
    /\ entry.ptr - entry.base > 16
    /\ PrologueAt(entry.ptr - entry.base)

\* the aborts generate_code runs into because a value lives in a spill slot
SpillPanics ==
    {"todo: load register argument into spilled local",
     "todo: load stack argument into spilled local",
     "todo: load function into spilled local",
     "todo: spilled local as call argument",
     "todo: spilled call result",
     "index out of bounds: register_lifetimes"}

\* generate_code has emitted all of function k of the module
Emitted(k) == pc = "done" \/ (pc \in {"gen", "instr"} /\ k < fidx)

\* the values of function k that register assignment put in a spill slot
SpilledValues(k) ==
    {p \in Producers(module[k].ssas) :
        module[k].ssas[p].local_register >= NONARG_REGISTER_COUNT}

\* the displacement from rbp that the Ret of codegen.rs:362-363 reads a
\* spilled value at
SlotDisp(slot) == -(slot - NONARG_REGISTER_COUNT) * 8

\* at offset q stands mov [rbp + disp], reg (REX.W 89 /r, mod 10, rm 101)
StoreToFrameAt(data, q, disp) ==
    /\ q + 7 <= Len(data)
    /\ data[q + 1] \in {72, 76}
    /\ data[q + 2] = 137
    /\ data[q + 3] \div 64 = 2
    /\ data[q + 3] % 8 = 5
    /\ SubSeq(data, q + 4, q + 7) = LE(disp, 4)

\* C13: for every value that register assignment puts in a spill slot,
\* generate_code emits (without aborting) a store to the slot's frame
\* offset where the value is produced, the offset its uses load from.
C13_SpilledValueStoredAndLoaded ==
    /\ ~(pc = "panic" /\ err \in SpillPanics)
    /\ \A k \in 1..Len(module) :
        Emitted(k) =>
            \A p \in SpilledValues(k) :
                \E q \in code.func_addrs[module[k].name].start
                          ..(code.func_addrs[module[k].name].end - 1) :
                    StoreToFrameAt(code.data, q,
                                   SlotDisp(module[k].ssas[p].local_register))

\* the usize that disassemble reads at data.as_ptr().add(o) (codegen.rs:218),
\* for values below 2^31
ReadUsize(data, o) ==
    data[o + 1] + 256 * data[o + 2] + 65536 * data[o + 3] + 16777216 * data[o + 4]

\* C14: every function's entry offset is a multiple of 16, the 16 bytes
\* before it are its header, the usize read at entry - 16 is the function's
\* argc, and the other header bytes are zero.
C14_HeaderLayout ==
    \A k \in 1..Len(module) :
        (pc \in {"gen", "instr", "done"} /\ module[k].name \in DOMAIN code.func_addrs) =>
            LET start == code.func_addrs[module[k].name].start
            IN  /\ start % 16 = 0
                /\ start >= 16
                /\ start <= Len(code.data)
                /\ ReadUsize(code.data, start - 16) = module[k].argc
                /\ \A b \in 5..16 : code.data[start - 16 + b] = 0

C14_Witness ==
    /\ pc = "done"
    /\ relocs # << >>
    /\ \E k \in 1..Len(module) :
        /\ module[k].argc >= 256
        /\ module[k].name \in DOMAIN code.func_addrs
        /\ code.func_addrs[module[k].name].start > 16

\* the positions after i whose instruction has the value produced at i as
\* an operand
LaterReferences(ssas, i) ==
    {j \in (i + 1)..Len(ssas) : References(ssas[j], ssas[i].local)}

\* C15 as stated: the lifetime of a value referenced later is (j - i) + 1
\* with j the position of the NEAREST later instruction referencing it,
\* also when several later instructions reference it.
C15_LifetimeIsNearestReference ==
    pc = "lifedone" =>
        \A i \in Producers(module[1].ssas) :
            LaterReferences(module[1].ssas, i) # {} =>
                module[1].ssas[i].local_lifetime
                    = (Min(LaterReferences(module[1].ssas, i)) - i) + 1

\* C15 amended: j is the position of the LAST later instruction referencing
\* the value; the lifetime is never below the distance to the nearest
\* reference and equals it exactly when one later instruction references
\* the value.
C15_LifetimeReachesLastOfSeveral ==
    pc = "lifedone" =>
        \A i \in Producers(module[1].ssas) :
            LET later == LaterReferences(module[1].ssas, i)
                life  == module[1].ssas[i].local_lifetime
            IN  later # {} =>
                    /\ life = (Max(later) - i) + 1
                    /\ life >= (Min(later) - i) + 1
                    /\ (life = (Min(later) - i) + 1) <=> (Cardinality(later) = 1)

C15_Witness ==
    /\ pc = "lifedone"
    /\ \E i \in Producers(module[1].ssas) :
        LET later == LaterReferences(module[1].ssas, i)
        IN  /\ Cardinality(later) >= 2
            /\ Min(later) = i + 1
            /\ module[1].ssas[i].local_lifetime = (Max(later) - i) + 1
            /\ module[1].ssas[i].local_lifetime > 2

\* the callee-saved pool registers of a sequence of pushed or popped registers
CalleeSavedOf(seq) == SelectSeq(seq, LAMBDA r : r \in CalleeSavedRegs)

\* C16: in every emitted function the callee-saved registers popped by the
\* epilogue are the ones pushed by the prologue, in the opposite order.
C16_PopsReversePushes ==
    pc = "done" =>
        \A name \in DOMAIN code.func_addrs :
            LET pushed == CalleeSavedOf(AtReturn(name).pushed)
                popped == CalleeSavedOf(AtReturn(name).popped)
            IN  /\ Len(popped) = Len(pushed)
                /\ \A k \in 1..Len(pushed) : popped[k] = pushed[Len(pushed) + 1 - k]

\* the n-th smallest element of a set of numbers
Nth(S, n) == CHOOSE x \in S : Cardinality({y \in S : y < x}) = n - 1

\* the hardware number (0..15) of a register operand
HwNumber(ir) == IF ir.t = "Bit64" THEN ir.v + 8 ELSE ir.v

\* the positions of the Call instructions of function k, and the offsets
\* of the call displacements emitted for them, both in program order
CallsOf(k) == {p \in 1..Len(module[k].ssas) : module[k].ssas[p].instr = "Call"}

CallRefsOf(k) ==
    {o \in Refs : /\ code.func_refs[o].relative
                  /\ o >= code.func_addrs[module[k].name].start
                  /\ o < code.func_addrs[module[k].name].end}

\* at offset q the accumulator is moved to where slot `slot` lives
ResultMovedTo(q, slot) ==
    LET loc == convert_to_instr_arg(convert_nonarg_register_id(slot))
    IN  IF is_register(loc)
        THEN /\ Decode(code.data, q).op = "mov"
             /\ Decode(code.data, q).dst = HwNumber(loc)
             /\ Decode(code.data, q).src = RAX
        ELSE StoreToFrameAt(code.data, q, SlotDisp(slot))

\* C17: after every Call that produces a value, the emitted code moves rax
\* into the location of the slot register assignment gave the value
\* (local_register), where the later instructions read it.
C17_ResultInAssignedLocation ==
    \A k \in 1..Len(module) :
        Emitted(k) =>
            \A n \in 1..Cardinality(CallsOf(k)) :
                LET ssa == module[k].ssas[Nth(CallsOf(k), n)]
                IN  ssa.local # None =>
                        /\ Cardinality(CallRefsOf(k)) = Cardinality(CallsOf(k))
                        /\ ResultMovedTo(Nth(CallRefsOf(k), n) + 4, ssa.local_register)

\* how often x occurs in a sequence
Count(seq, x) == Cardinality({i \in 1..Len(seq) : seq[i] = x})

\* the Calls of function k after which a value held in r11 (pool slot 3)
\* is still referenced
CallsWithLiveR11(k) ==
    {p \in CallsOf(k) :
        \E q \in 1..(p - 1) :
            /\ module[k].ssas[q].local # None
            /\ module[k].ssas[q].local_register = revert_to_nonarg_register_id(Reg("R11"))
            /\ \E j \in (p + 1)..Len(module[k].ssas) :
                    References(module[k].ssas[j], module[k].ssas[q].local)}

\* C18: around every Call after which a value held in r11 is still
\* referenced the emitted code has push r11 and pop r11, and no push or pop
\* of r11 otherwise.
C18_ScratchSavedWhenLive ==
    \A k \in 1..Len(module) :
        (pc = "done" /\ module[k].name \in DOMAIN code.func_addrs) =>
            /\ Count(AtReturn(module[k].name).pushed, 11) = Cardinality(CallsWithLiveR11(k))
            /\ Count(AtReturn(module[k].name).popped, 11) = Cardinality(CallsWithLiveR11(k))

\* function k of the input has been lowered into function k of the module
Lowered(k) == pc \in {"lower", "gen"} /\ k <= Len(input) /\ k <= Len(module)

\* C19: in the bound-name to parameter-index mapping of a lowered function,
\* captured variable k has index k and declared argument j has index
\* (number of captured variables) + j, so distinct names have distinct
\* indices and every index is below argc; a Load of a bound name loads
\* that index.
C19_ArgsMapCapturedThenDeclared ==
    \A k \in 1..Len(input) :
        Lowered(k) =>
            LET func == input[k]
                map  == ArgsMap(func)
            IN  /\ \A j \in 1..Len(func.captured_names) :
                        map[func.captured_names[j]] = j - 1
                /\ \A j \in 1..Len(func.args) :
                        map[func.args[j]] = Len(func.captured_names) + (j - 1)
                /\ \A s, t \in DOMAIN map : s # t => map[s] # map[t]
                /\ \A s \in DOMAIN map : map[s] < module[k].argc
                /\ func.body.tag = "Symbol" =>
                        module[k].ssas[1].args = << Argument(map[func.body.s]) >>

\* the knownArity each Call of a flattened chain is to carry, in emission
\* order: `cur` is the arity of the callee value the next Call applies its
\* first argument to (the chain's callee, then 0 for a Call's result, whose
\* layer had residual arity 0); layers are taken innermost first
RECURSIVE ExpectedKnown(_)
RECURSIVE ExpectedKnownLayers(_, _)
ExpectedKnownLayers(stack, cur) ==
    IF stack = << >> THEN << >>
    ELSE LET top  == stack[Len(stack)]
             rest == SubSeq(stack, 1, Len(stack) - 1)
         IN  ExpectedKnown(top[2])
             \o (IF top[1] = 0
                 THEN << cur # 0 >> \o ExpectedKnownLayers(rest, 0)
                 ELSE ExpectedKnownLayers(rest, cur))

ExpectedKnown(sexpr) ==
    IF sexpr.tag # "Application" THEN << >>
    ELSE LET u == unwind(sexpr.f, << << sexpr.arity, sexpr.a >> >>)
         IN  ExpectedKnownLayers(u[1], u[2].arity)

\* the knownArity of the Calls of an instruction list, in order
KnownFlags(ssas) ==
    LET calls == SelectSeq(ssas, LAMBDA s : s.instr \in {"Call", "Call?"})
    IN  [i \in 1..Len(calls) |-> calls[i].instr = "Call"]

\* C20: every Call emitted while flattening a chain of curried applications
\* has knownArity true exactly when the arity of its callee value, before
\* any of the Call's arguments were applied, was nonzero: for the first
\* Call of the chain and for the Calls applied to an earlier Call's result.
C20_KnownArityIsCalleeArity ==
    \A k \in 1..Len(input) :
        Lowered(k) => KnownFlags(module[k].ssas) = ExpectedKnown(input[k].body)

\* number of instructions (each producing one value) that flattening an
\* expression gives: one Load for a symbol or function reference; for a
\* chain its callee, its arguments, one Call per layer of residual arity 0
\* and one ApplyPartial when the outermost layer's residual arity is not 0
RECURSIVE Produced(_)
RECURSIVE ProducedLayers(_, _)
ProducedLayers(stack, i) ==
    IF i = 0 THEN 0
    ELSE Produced(stack[i][2]) + (IF stack[i][1] = 0 THEN 1 ELSE 0)
         + ProducedLayers(stack, i - 1)

Produced(sexpr) ==
    IF sexpr.tag # "Application" THEN 1
    ELSE LET u == unwind(sexpr.f, << << sexpr.arity, sexpr.a >> >>)
         IN  Produced(u[2]) + ProducedLayers(u[1], Len(u[1]))
             + (IF sexpr.arity # 0 THEN 1 ELSE 0)

LocalsOf(ids) == [i \in 1..Len(ids) |-> Local(ids[i])]

\* what the flattening of a chain is to give, layer by layer from the
\* innermost: `next` is the id of the next produced value, f the current
\* callee value, pending the argument values accumulated since the last
\* Call, calls the Calls so far (id and operands), values the value of each
\* argument a1..an
RECURSIVE ChainWalk(_, _, _, _, _, _)
ChainWalk(stack, next, f, pending, calls, values) ==
    IF stack = << >>
    THEN [f |-> f, pending |-> pending, calls |-> calls, values |-> values, next |-> next]
    ELSE LET top  == stack[Len(stack)]
             rest == SubSeq(stack, 1, Len(stack) - 1)
             v    == next + Produced(top[2]) - 1
         IN  IF top[1] = 0
             THEN ChainWalk(rest, v + 2, v + 1, << >>,
                            Append(calls, [local |-> v + 1,
                                           args |-> << Local(f) >> \o LocalsOf(Append(pending, v))]),
                            Append(values, v))
             ELSE ChainWalk(rest, v + 1, f, Append(pending, v), calls, Append(values, v))

ExpectedChain(body) ==
    LET u == unwind(body.f, << << body.arity, body.a >> >>)
    IN  ChainWalk(u[1], Produced(u[2]), Produced(u[2]) - 1, << >>, << >>, << >>)

\* function k was lowered from a body that is a chain of applications
LoweredChain(k) == Lowered(k) /\ input[k].body.tag = "Application"

ApplyPositions(ssas) == {p \in 1..Len(ssas) : ssas[p].instr = "Apply"}

\* the ApplyPartial of a chain, where there is one, stands last (before the
\* function's Ret) and applies the current callee value to the pending
\* arguments in source order
ApplyAsExpected(k) ==
    LET e    == ExpectedChain(input[k].body)
        ssas == module[k].ssas
    IN  /\ (e.pending # << >>) <=> (ApplyPositions(ssas) # {})
        /\ e.pending # << >> =>
            /\ ApplyPositions(ssas) = {Len(ssas) - 1}
            /\ ssas[Len(ssas) - 1].args = << Local(e.f) >> \o LocalsOf(e.pending)

\* C21 as stated: an ApplyPartial is emitted exactly when arguments remain
\* pending after the last layer, as the last instruction of the chain, and
\* its operands are the result of the preceding Call followed by the
\* remaining arguments in source order.
C21_ApplyPartialOnCallResult ==
    \A k \in 1..Len(input) :
        LoweredChain(k) =>
            /\ ApplyAsExpected(k)
            /\ \A p \in ApplyPositions(module[k].ssas) :
                    \E q \in 1..(p - 1) :
                        /\ module[k].ssas[q].instr \in {"Call", "Call?"}
                        /\ module[k].ssas[p].args[1] = Local(module[k].ssas[q].local)

\* C21 amended: the first operand is the current callee value, which is the
\* result of the chain's last Call when a layer emitted one and the lowered
\* callee of the chain (the first instruction's value) when none did.
C21_ApplyPartialOnCurrentCallee ==
    \A k \in 1..Len(input) :
        LoweredChain(k) =>
            /\ ApplyAsExpected(k)
            /\ \A p \in ApplyPositions(module[k].ssas) :
                    LET e == ExpectedChain(input[k].body)
                    IN  module[k].ssas[p].args[1] =
                            IF e.calls = << >> THEN Local(0)
                            ELSE Local(e.calls[Len(e.calls)].local)

C21_Witness ==
    \E k \in 1..Len(input) :
        /\ LoweredChain(k)
        /\ ExpectedChain(input[k].body).calls # << >>
        /\ \E p \in ApplyPositions(module[k].ssas) : Len(module[k].ssas[p].args) >= 3

\* the instruction producing an argument's value is the one its expression
\* lowers to last
ValueMatches(ssa, sexpr, map) ==
    CASE sexpr.tag = "Symbol" ->
            ssa.instr = "Load" /\ ssa.args = << Argument(map[sexpr.s]) >>
      [] sexpr.tag = "Function" ->
            ssa.instr = "Load" /\ ssa.args = << Function(sexpr.s) >>
      [] OTHER ->
            ssa.instr \in {"Call", "Call?", "Apply"}

\* C22: flattening (((f a1) a2) ... an) lowers f first and then a1..an in
\* that order; each layer of residual arity 0 emits one Call whose operands
\* are the current callee value and the arguments accumulated since the
\* previous Call, in source order, and whose result is the callee of the
\* following layers.
C22_ChainFlattenedInSourceOrder ==
    \A k \in 1..Len(input) :
        LoweredChain(k) =>
            LET body == input[k].body
                u    == unwind(body.f, << << body.arity, body.a >> >>)
                n    == Len(u[1])
                e    == ExpectedChain(body)
                ssas == module[k].ssas
                map  == ArgsMap(input[k])
            IN  /\ Len(ssas) = Produced(body) + 1
                /\ ValueMatches(ssas[Produced(u[2])], u[2], map)
                /\ \A i \in 1..n :
                        /\ ssas[e.values[i] + 1].local = e.values[i]
                        /\ ValueMatches(ssas[e.values[i] + 1], u[1][n + 1 - i][2], map)
                /\ \A i \in 1..Len(e.calls) :
                        /\ ssas[e.calls[i].local + 1].instr \in {"Call", "Call?"}
                        /\ ssas[e.calls[i].local + 1].local = e.calls[i].local
                        /\ ssas[e.calls[i].local + 1].args = e.calls[i].args
                /\ Cardinality({p \in 1..Len(ssas) : ssas[p].instr \in {"Call", "Call?"}})
                        = Len(e.calls)
                          + Cardinality({i \in 1..n : u[1][i][2].tag = "Application"})

C22_Witness ==
    \E k \in 1..Len(input) :
        /\ LoweredChain(k)
        /\ LET e == ExpectedChain(input[k].body)
           IN  /\ Len(e.calls) >= 2
               /\ Len(e.calls[2].args) >= 3
               /\ e.calls[2].args[1] = Local(e.calls[1].local)
               /\ module[k].ssas[e.calls[2].local + 1].args = e.calls[2].args

IsPrefix(a, b) == Len(a) <= Len(b) /\ SubSeq(b, 1, Len(a)) = a

\* one step of generate_code seen from the artifact
AppendOnlyStep ==
    pc \in {"gen", "instr"} =>
        /\ IsPrefix(code.data, code'.data)
        /\ \A o \in DOMAIN code.func_refs :
                o \in DOMAIN code'.func_refs /\ code'.func_refs[o] = code.func_refs[o]
        /\ \A o \in DOMAIN code'.func_refs \ DOMAIN code.func_refs :
                /\ o >= Len(code.data)
                /\ o + RelocWidth(code'.func_refs[o]) <= Len(code'.data)
        /\ \A name \in DOMAIN code.func_addrs :
                /\ name \in DOMAIN code'.func_addrs
                /\ code'.func_addrs[name].start = code.func_addrs[name].start
        /\ \A name \in DOMAIN code'.func_addrs \ DOMAIN code.func_addrs :
                code'.func_addrs[name].start >= Len(code.data)

\* C23: during generate_code every step leaves the previous buffer as a
\* prefix of the new one, enters references only at offsets from the
\* previous buffer length on (with their whole field inside the new
\* buffer), and changes or removes no reference and no function start that
\* was recorded before.
C23_BufferAppendOnly == [][AppendOnlyStep]_vars

C23_Witness ==
    /\ pc = "instr"
    /\ fidx = 2
    /\ iidx > 1
    /\ Cardinality(DOMAIN code.func_refs) >= 2
    /\ Cardinality(DOMAIN code.func_addrs) = 2

\* at offset o starts an 8-byte zero placeholder directly after a
\* move-immediate opcode (REX.W, B8+r)
AbsolutePlaceholderAt(data, o) ==
    /\ o >= 2
    /\ o + 8 <= Len(data)
    /\ data[o - 1] \in {72, 73}
    /\ data[o] >= 184 /\ data[o] <= 191
    /\ \A b \in 1..8 : data[o + b] = 0

\* at offset o starts a 4-byte zero placeholder directly after opcode E8
RelativePlaceholderAt(data, o) ==
    /\ o >= 1
    /\ o + 4 <= Len(data)
    /\ data[o] = 232
    /\ \A b \in 1..4 : data[o + b] = 0

\* the references recorded inside the bytes of function k
RefsOf(k, relative, name) ==
    {o \in Refs : /\ code.func_refs[o] = [func |-> name, relative |-> relative]
                  /\ o >= code.func_addrs[module[k].name].start
                  /\ o < code.func_addrs[module[k].name].end}

\* the operands of function k that name the function `name`: the <<p, a>>
\* with operand a of instruction p a Function(name), callee operands of
\* Calls apart
FunctionOperands(k, name) ==
    {pa \in (1..Len(module[k].ssas)) \X (1..9) :
        /\ pa[2] <= Len(module[k].ssas[pa[1]].args)
        /\ module[k].ssas[pa[1]].args[pa[2]] = Function(name)
        /\ \/ module[k].ssas[pa[1]].instr = "Load" /\ pa[2] = 1
           \/ module[k].ssas[pa[1]].instr = "Call" /\ pa[2] >= 2}

DirectCalls(k, name) ==
    {p \in CallsOf(k) : module[k].ssas[p].args[1] = Function(name)}

TargetNames == {code.func_refs[o].func : o \in Refs}
                 \cup {"f", "g", "nope"}

\* C24: every Load of a named function and every named-function operand of
\* a Call records one absolute reference to the name at the offset of an
\* 8-byte zero placeholder directly after the move-immediate opcode, every
\* direct call one relative reference to the callee at the offset of a
\* 4-byte zero placeholder directly after E8, and nothing else is recorded.
C24_ReferencesRecorded ==
    (relocs = << >> /\ pc \in {"gen", "instr", "done", "panic"}) =>
        /\ \A o \in Refs :
                IF code.func_refs[o].relative
                THEN RelativePlaceholderAt(code.data, o)
                ELSE AbsolutePlaceholderAt(code.data, o)
        /\ \A k \in 1..Len(module) :
                Emitted(k) =>
                    \A name \in TargetNames :
                        /\ Cardinality(RefsOf(k, FALSE, name))
                                = Cardinality(FunctionOperands(k, name))
                        /\ Cardinality(RefsOf(k, TRUE, name))
                                = Cardinality(DirectCalls(k, name))

C24_Witness ==
    /\ pc = "done"
    /\ relocs = << >>
    /\ \E k \in 1..Len(module) :
        /\ Cardinality(RefsOf(k, FALSE, "f")) = 6
        /\ Cardinality(RefsOf(k, TRUE, "f")) = 1

\* C25: the argument-register set and the general-purpose pool name
\* disjoint physical registers: the register convert_nonarg_register_id
\* gives for a pool slot generate_code has handed to a produced value is
\* not the register convert_arg_register_id gives for any argument slot.
C25_PoolDisjointFromArgRegisters ==
    \A l \in DOMAIN local_to_register :
        \A p \in 0..(NONARG_REGISTER_COUNT - 1) : \A a \in 0..(ARG_REGISTER_COUNT - 1) :
            local_to_register[l] = convert_nonarg_register_id(p) =>
                convert_nonarg_register_id(p) # convert_arg_register_id(a)

\* C26: in every function produced by lowering, each produced value is an
\* operand of exactly one later instruction, and so its lifetime after
\* calculate_lifetimes is neither 0 nor below 2.
C26_EachValueReferencedOnce ==
    \A k \in 1..Len(module) :
        Lowered(k) =>
            \A i \in Producers(module[k].ssas) :
                /\ Cardinality(LaterReferences(module[k].ssas, i)) = 1
                /\ module[k].ssas[i].local_lifetime # 0
                /\ module[k].ssas[i].local_lifetime >= 2

\* a lowered chain with at least four produced values, one of them read
\* by an instruction that is not the next one
C26_Witness ==
    \E k \in 1..Len(module) :
        /\ LoweredChain(k)
        /\ Cardinality(Producers(module[k].ssas)) >= 4
        /\ \E i \in Producers(module[k].ssas) :
                /\ LaterReferences(module[k].ssas, i) # {}
                /\ module[k].ssas[i].local_lifetime >= 3

\* the step emits the whole sequence of a known-arity Call
CallEmitted ==
    /\ pc = "instr" /\ pc' = "instr" /\ iidx' = iidx + 1
    /\ iidx <= Len(module[fidx].ssas)
    /\ module[fidx].ssas[iidx].instr = "Call"

\* the pushes, pops and stack adjustments among the bytes the step appended
CallSequence == Run(code'.data, Len(code.data), Len(code'.data), EntryMachine)

CallBalancedStep ==
    CallEmitted =>
        LET st == CallSequence
        IN  /\ ~st.halted
            /\ Len(st.pushed) = Len(st.popped) + st.adjusted
            /\ \A j \in 1..Len(st.popped) :
                    j <= Len(st.pushed)
                    /\ st.popped[j] = st.pushed[(Len(st.pushed) - st.adjusted) + 1 - j]

\* C27: every completely emitted known-arity Call sequence is
\* stack-balanced: it pushes as many 8-byte slots as it pops or adjusts
\* away, so every pop takes the slot that was pushed from the same
\* register.
C27_CallSequenceBalanced == [][CallBalancedStep]_vars

\* run from offset p up to (not including) the next call instruction
RECURSIVE RunToCall(_, _, _, _)
RunToCall(data, p, end, st) ==
    IF p >= end \/ st.halted THEN st
    ELSE LET ins == Decode(data, p)
         IN  IF ins.op = "call" THEN st
             ELSE IF p + ins.len > end THEN [st EXCEPT !.halted = TRUE]
             ELSE RunToCall(data, p + ins.len, end, Step(st, ins))

\* the hardware register an operand is read from, None for an operand
\* that is not held in a register
OperandSource(arg) ==
    CASE arg.kind = "Local" /\ arg.n \in DOMAIN local_to_register
            /\ is_register(convert_to_instr_arg(local_to_register[arg.n])) ->
                HwNumber(convert_to_instr_arg(local_to_register[arg.n]))
      [] arg.kind = "Argument"
            /\ is_register(convert_to_instr_arg(convert_arg_register_id(arg.n))) ->
                HwNumber(convert_to_instr_arg(convert_arg_register_id(arg.n)))
      [] OTHER -> None

\* at the call instruction, argument register i holds what operand i's
\* source register held when the sequence started
MarshalledInParallel ==
    CallEmitted =>
        LET ssa == module[fidx].ssas[iidx]
            st  == RunToCall(code'.data, Len(code.data), Len(code'.data), EntryMachine)
        IN  \A k \in 2..Len(ssa.args) :
                (k - 2 < ARG_REGISTER_COUNT /\ OperandSource(ssa.args[k]) # None) =>
                    st.regs[HwNumber(convert_to_instr_arg(convert_arg_register_id(k - 2)))]
                        = EntryValue(OperandSource(ssa.args[k]))

\* C28: argument marshalling of a Call is a parallel move: ABI argument
\* register i holds at the call instruction the value operand i's source
\* location held before marshalling started, also when that source is an
\* argument register or rdx that an earlier move of the same call wrote.
C28_MarshallingIsParallelMove == [][MarshalledInParallel]_vars

\* offset o (0-based) lies inside the field of a recorded reference
InReferenceField(o) ==
    \E r \in DOMAIN code.func_refs :
        o >= r /\ o < r + (IF code.func_refs[r].relative THEN 4 ELSE 8)

RelocateStep == pc = "done" /\ relocs' # relocs

RelocateFrame ==
    RelocateStep =>
        /\ Len(code'.data) = Len(code.data)
        /\ \A k \in 1..Len(code.data) :
                code'.data[k] # code.data[k] => InReferenceField(k - 1)
        /\ code'.func_addrs = code.func_addrs
        /\ code'.func_refs = code.func_refs

\* C29: relocate changes only bytes inside the recorded reference fields
\* (4 bytes from a relative reference's offset, 8 from an absolute one's)
\* and leaves every other byte, the buffer length, the function-address
\* table and the reference map unchanged.
C29_RelocateTouchesOnlyReferenceFields == [][RelocateFrame]_vars

\* relocated code with a patched relative field directly followed by an
\* instruction byte, and a patched absolute field
C29_Witness ==
    /\ pc = "done"
    /\ relocs # << >>
    /\ \E o1, o2 \in Refs :
        /\ code.func_refs[o1].relative /\ Resolved(o1)
        /\ o1 + 4 < Len(code.data) /\ code.data[o1 + 5] # 0
        /\ Signed32At(code.data, o1) # 0
        /\ ~code.func_refs[o2].relative /\ Resolved(o2)
        /\ ~Unsigned64AtIs(code.data, o2, 0)

\* the instructions decoded from offset p up to offset end
RECURSIVE Instrs(_, _, _)
Instrs(data, p, end) ==
    IF p >= end THEN << >>
    ELSE LET ins == Decode(data, p)
         IN  << ins >> \o Instrs(data, p + ins.len, end)

\* a 64-bit register-to-register move from src to dst
IsMove(ins, dst, src) == ins.op = "mov" /\ ins.dst = dst /\ ins.src = src

\* the instructions the step appended to the buffer
Appended == Instrs(code'.data, Len(code.data), Len(code'.data))

\* the step emits one instruction of the current function without a panic
InstrEmitted(kind) ==
    /\ pc = "instr" /\ pc' = "instr" /\ iidx' = iidx + 1
    /\ iidx <= Len(module[fidx].ssas)
    /\ module[fidx].ssas[iidx].instr = kind

\* Load of a register parameter into a pool register (codegen.rs:406-418)
LoadMoveExact ==
    LET ssa == module[fidx].ssas[iidx]
    IN  (/\ InstrEmitted("Load")
         /\ ssa.args[1].kind = "Argument"
         /\ OperandSource(ssa.args[1]) # None) =>
            /\ Len(Appended) = 1
            /\ IsMove(Appended[1],
                      HwNumber(convert_to_instr_arg(local_to_register'[ssa.local])),
                      OperandSource(ssa.args[1]))

\* Ret of a value held in a register other than rax (codegen.rs:350-355)
RetMoveExact ==
    LET ssa == module[fidx].ssas[iidx]
    IN  (/\ InstrEmitted("Ret")
         /\ Len(ssa.args) >= 1
         /\ OperandSource(ssa.args[1]) \notin {None, RAX}) =>
            IsMove(Appended[1], RAX, OperandSource(ssa.args[1]))

\* the register operands of a call among its first six arguments, as
\* pairs << argument register, source register >> in operand order
RECURSIVE MarshalPairs(_, _)
MarshalPairs(ssa, k) ==
    IF k > Len(ssa.args) \/ k - 2 >= ARG_REGISTER_COUNT THEN << >>
    ELSE (IF OperandSource(ssa.args[k]) # None
          THEN << << HwNumber(convert_to_instr_arg(convert_arg_register_id(k - 2))),
                     OperandSource(ssa.args[k]) >> >>
          ELSE << >>)
         \o MarshalPairs(ssa, k + 1)

\* position of the call instruction among the appended instructions
CallIndex == CHOOSE j \in 1..Len(Appended) : Appended[j].op = "call"

\* the appended instructions before the call that are neither pushes nor
\* loads of a function address
MarshalMoves ==
    SelectSeq(SubSeq(Appended, 1, CallIndex - 1),
              LAMBDA ins : ins.op \notin {"push", "movimm"})

\* marshalling moves (codegen.rs:509-526) and the move of the result out
\* of rax (codegen.rs:597-612)
CallMovesExact ==
    LET ssa   == module[fidx].ssas[iidx]
        pairs == MarshalPairs(ssa, 2)
    IN  InstrEmitted("Call") =>
            /\ Len(MarshalMoves) = Len(pairs)
            /\ \A j \in 1..Len(pairs) : IsMove(MarshalMoves[j], pairs[j][1], pairs[j][2])
            /\ ssa.local # None =>
                    IsMove(Appended[CallIndex + 1],
                           HwNumber(convert_to_instr_arg(ResultRegister(ssa))), RAX)

MovesExact == LoadMoveExact /\ RetMoveExact /\ CallMovesExact

\* C30: every register-to-register move the emitter produces (parameter
\* load, call-argument marshalling, call-result move, return-value move)
\* decodes, by its REX prefix and ModRM byte, as a 64-bit move whose
\* destination and source are exactly the intended registers.
C30_MovesDecodeAsIntended == [][MovesExact]_vars

====
